---- MODULE Spec2Model ----
(***************************************************************************)
(* Williecat: module execution and result normalisation.                   *)
(*                                                                         *)
(* The model follows src/williecat: the result model and the failure       *)
(* classifier (core.py), the module registry and name resolution           *)
(* (modules/__init__.py), the six adapters (modules/*.py), the HTTP        *)
(* capability (http.py), the demo dataset (demo.py) and the command line   *)
(* driver with its orchestration loop (cli.py).                            *)
(*                                                                         *)
(* Encoding of Python values:                                              *)
(*   - Optional[T]: None is the empty tuple, a present value v is <<v>>.   *)
(*   - str: a sequence of text fragments.  A text that the code examines   *)
(*     character by character (module names, exception messages) is        *)
(*     written one character per fragment; fixed message prefixes that are *)
(*     only concatenated and tested for emptiness are one fragment.        *)
(*   - dict: a function from keys to values; list: a sequence.  A JSON     *)
(*     payload carries its type next to its value.                         *)
(*   - an exception: a record of its class, its str() and, for URLError,   *)
(*     its reason.                                                         *)
(***************************************************************************)
EXTENDS Integers, Sequences, FiniteSets, TLC

VARIABLES
    argv,        \* the parsed command line (cli.py main, args)
    pc,          \* position of main: start, exec, report, done, usage_error, crashed
    modules,     \* the resolved module list of the run
    context,     \* the ReconContext of the run
    idx,         \* position of the loop of _execute_modules (1-based)
    results,     \* the result list of _execute_modules
    raised,      \* the exception that escaped main, if any
    exitMsg,     \* the message of parser.error, if any
    net,         \* every network operation performed, in order, with the position
                 \* in the module list of the module that performed it
    instantiated,\* the adapter classes instantiated, in order
    uaIndex,     \* position of HeaderSnifferModule._ua_cycle
    faults,      \* number of upstream faults met so far in the run
    budget,      \* most upstream faults the run is given
    reports,     \* the report files written, in order
    log,         \* the records appended to PAWPRINTS_PATH
    logError,    \* the OSError that the append to PAWPRINTS_PATH raised, if any
    exitCode,    \* the exit status of the process, once it has ended
    exc,         \* classifier harness: the exception handed to classify_exception
    classified   \* classifier harness: the outcome classify_exception returned

vars == <<argv, pc, modules, context, idx, results, raised, exitMsg, net,
          instantiated, uaIndex, faults, budget, reports, log, logError, exitCode,
          exc, classified>>

mainVars == <<argv, pc, modules, context, idx, results, raised, exitMsg, net,
              instantiated, uaIndex, faults, budget, reports, log, logError, exitCode>>

(***************************************************************************)
(* Bounds of the model.                                                    *)
(***************************************************************************)
\* longest --modules list the command line is given
MaxReq == 2
\* most upstream answers of one run that are not the endpoint's full answer
\* (an exception, a bad status, a bad or an empty payload)
MaxFaults == 1
\* the same, of a run of one module on its own
MaxSingleFaults == 5

(***************************************************************************)
(* Python values.                                                          *)
(***************************************************************************)
None == <<>>

Some(v) == <<v>>

\* bool(x) of an Optional[str]: None and "" are false.
Truthy(opt) == opt # None /\ opt[1] # <<>>

Whitespace == {" ", "\t", "\n", "\r"}

UpperCase == <<"A", "B", "C", "D", "E", "F", "G", "H", "I", "J", "K", "L", "M",
               "N", "O", "P", "Q", "R", "S", "T", "U", "V", "W", "X", "Y", "Z">>

LowerCase == <<"a", "b", "c", "d", "e", "f", "g", "h", "i", "j", "k", "l", "m",
               "n", "o", "p", "q", "r", "s", "t", "u", "v", "w", "x", "y", "z">>

\* the lower-case letter of each upper-case letter
ToLower ==
    [c \in {UpperCase[i] : i \in 1..Len(UpperCase)} |->
        LowerCase[CHOOSE i \in 1..Len(UpperCase) : UpperCase[i] = c]]

LowerChar(c) == IF c \in DOMAIN ToLower THEN ToLower[c] ELSE c

\* the text unchanged: the letter case is kept
StrLowerKeepCase(s) == s

\* str.lower()
StrLower(s) == [i \in 1..Len(s) |-> LowerChar(s[i])]

RECURSIVE LStrip(_)
LStrip(s) == IF s # <<>> /\ Head(s) \in Whitespace THEN LStrip(Tail(s)) ELSE s

RECURSIVE RStrip(_)
RStrip(s) ==
    IF s # <<>> /\ s[Len(s)] \in Whitespace
    THEN RStrip(SubSeq(s, 1, Len(s) - 1))
    ELSE s

\* str.strip()
StrStrip(s) == RStrip(LStrip(s))

\* needle in hay
Contains(hay, needle) ==
    \E i \in 1..(Len(hay) - Len(needle) + 1) :
        SubSeq(hay, i, i + Len(needle) - 1) = needle

\* str.split(","): the pieces between the commas, at least one piece.
RECURSIVE SplitFrom(_, _, _)
SplitFrom(s, i, piece) ==
    IF i > Len(s) THEN <<piece>>
    ELSE IF s[i] = "," THEN <<piece>> \o SplitFrom(s, i + 1, <<>>)
    ELSE SplitFrom(s, i + 1, Append(piece, s[i]))

SplitCommas(s) == SplitFrom(s, 1, <<>>)

\* ",".join(pieces), what the user typed after --modules
RECURSIVE JoinCommas(_)
JoinCommas(pieces) ==
    IF Len(pieces) = 0 THEN <<>>
    ELSE IF Len(pieces) = 1 THEN pieces[1]
    ELSE pieces[1] \o <<",">> \o JoinCommas(Tail(pieces))

(***************************************************************************)
(* core.py: outcomes and classify_exception.                               *)
(***************************************************************************)
OUTCOME_BLOCKED == "blocked"

OUTCOME_TIMEOUT == "timeout"

OUTCOME_NO_DATA == "no_data"

OUTCOME_SUCCESS == "success"

Outcomes == {OUTCOME_SUCCESS, OUTCOME_NO_DATA, OUTCOME_TIMEOUT, OUTCOME_BLOCKED}

\* The direct base class of each exception class the model uses.
BaseOf ==
    [c \in {"TimeoutError", "socket.timeout", "ConnectionRefusedError", "URLError",
            "HTTPError", "OSError", "HttpError", "RuntimeError", "JSONDecodeError",
            "ValueError", "AttributeError", "TypeError", "KeyError", "Exception"} |->
        CASE c = "TimeoutError" -> "OSError"
          [] c = "socket.timeout" -> "OSError"
          [] c = "ConnectionRefusedError" -> "OSError"
          [] c = "URLError" -> "OSError"
          [] c = "HTTPError" -> "URLError"
          [] c = "OSError" -> "Exception"
          [] c = "HttpError" -> "RuntimeError"
          [] c = "RuntimeError" -> "Exception"
          [] c = "JSONDecodeError" -> "ValueError"
          [] c = "ValueError" -> "Exception"
          [] c = "AttributeError" -> "Exception"
          [] c = "TypeError" -> "Exception"
          [] c = "KeyError" -> "Exception"
          [] OTHER -> "Exception"]

\* isinstance(e, classes), e given by its class name
RECURSIVE IsInstance(_, _)
IsInstance(cls, classes) ==
    \/ cls \in classes
    \/ cls \in DOMAIN BaseOf /\ cls # "Exception" /\ IsInstance(BaseOf[cls], classes)

\* A reason of URLError: a string (type "str") or an exception; msg is str(reason).
NoReason == [type |-> "none", msg |-> <<>>]

Exc(cls, msg) == [type |-> cls, msg |-> msg, reason |-> NoReason]

\* str(URLError(reason)) is "<urlopen error %s>" % reason
UrlErrorText(reason) ==
    <<"<", "u", "r", "l", "o", "p", "e", "n", " ", "e", "r", "r", "o", "r", " ">>
        \o reason.msg \o <<">">>

UrlError(reason) == [type |-> "URLError", msg |-> UrlErrorText(reason), reason |-> reason]

TimedOut == <<"t", "i", "m", "e", "d", " ", "o", "u", "t">>

classify_exception(e) ==
    IF IsInstance(e.type, {"TimeoutError", "socket.timeout"}) THEN OUTCOME_TIMEOUT
    ELSE IF /\ IsInstance(e.type, {"URLError"})
            /\ \/ IsInstance(e.reason.type, {"TimeoutError", "socket.timeout"})
               \/ Contains(StrLower(e.reason.msg), TimedOut)
         THEN OUTCOME_TIMEOUT
    ELSE IF Contains(StrLower(e.msg), TimedOut) THEN OUTCOME_TIMEOUT
    ELSE OUTCOME_BLOCKED

(***************************************************************************)
(* core.py and modules/__init__.py: the two ModuleResult classes.          *)
(*                                                                         *)
(* whois_lookup.py, header_sniffer.py and demo.py import ModuleResult from *)
(* core.py (five fields, outcome derived in __post_init__); dns_enum.py,   *)
(* cert_scraper.py, ip_intel.py and social_trace.py import it from the     *)
(* modules package (four fields, no outcome attribute).  A result is a     *)
(* record whose domain is the attribute set of its class.                  *)
(***************************************************************************)
\* core.ModuleResult.__post_init__: the outcome when none is given
DeriveOutcome(data, error) ==
    IF Truthy(error) THEN OUTCOME_BLOCKED
    ELSE IF data = None THEN OUTCOME_NO_DATA
    ELSE OUTCOME_SUCCESS

\* core.ModuleResult(module, data, warnings=..., outcome=..., error=...)
CoreModuleResult(module, data, warnings, outcome, error) ==
    [module |-> module,
     data |-> data,
     warnings |-> warnings,
     outcome |-> IF outcome = None THEN DeriveOutcome(data, error) ELSE outcome[1],
     error |-> error]

\* modules.ModuleResult(module, data, warnings=..., error=...)
LegacyModuleResult(module, data, warnings, error) ==
    [module |-> module, data |-> data, warnings |-> warnings, error |-> error]

\* core.ModuleResult.failure
Failure(module, message, outcome, warnings) ==
    CoreModuleResult(module, None, warnings, Some(outcome), Some(message))

\* core.ModuleResult.from_exception
FromException(module, e, warnings) ==
    CoreModuleResult(module, None, warnings, Some(classify_exception(e)), Some(e.msg))

\* ModuleResult.as_dict of the class the result is an instance of
as_dict(r) ==
    IF "outcome" \in DOMAIN r
    THEN [module |-> r.module, outcome |-> r.outcome, data |-> r.data,
          warnings |-> r.warnings, error |-> r.error]
    ELSE [module |-> r.module, data |-> r.data, warnings |-> r.warnings,
          error |-> r.error]

\* getattr(r, "outcome", None)
OutcomeOf(r) == IF "outcome" \in DOMAIN r THEN Some(r.outcome) ELSE None

(***************************************************************************)
(* http.py: HttpSession and HttpResponse.                                  *)
(*                                                                         *)
(* What the network does to one request is an input: the opener raises     *)
(* (a timeout or a refused connection, wrapped in URLError), or answers    *)
(* with a status and a body.  A body is named by what it holds: "data" is  *)
(* the endpoint's JSON with entries, "nodata" the endpoint's JSON without  *)
(* entries, "nxdomain" a resolver answer with a non-zero Status,           *)
(* "wrongshape" JSON of the other container type, "html" no JSON, "big" a   *)
(* list longer than the adapter's limit.                                   *)
(***************************************************************************)
Upstream ==
    {"ok", "empty", "big", "nxdomain", "wrongshape", "notjson", "status404",
     "status405", "status501", "timeout", "refused"}

\* the upstream behaviours that the bound MaxFaults counts
IsFault(u) == u # "ok"

UpstreamStatus(u) ==
    CASE u = "status404" -> 404
      [] u = "status405" -> 405
      [] u = "status501" -> 501
      [] OTHER -> 200

UpstreamBody(u) ==
    CASE u = "ok" -> "data"
      [] u = "empty" -> "nodata"
      [] u = "big" -> "big"
      [] u = "nxdomain" -> "nxdomain"
      [] u = "wrongshape" -> "wrongshape"
      [] OTHER -> "html"

UpstreamException(u) ==
    IF u = "timeout"
    THEN UrlError([type |-> "TimeoutError", msg |-> TimedOut])
    ELSE UrlError([type |-> "ConnectionRefusedError",
                   msg |-> <<"r", "e", "f", "u", "s", "e", "d">>])

NoResponse == [status_code |-> 0, body |-> "html", url |-> <<>>]

\* HttpSession.request: the opener raises, or the answer (an HTTPError included)
\* becomes an HttpResponse.
Request(url, u) ==
    IF u \in {"timeout", "refused"}
    THEN [raised |-> Some(UpstreamException(u)), response |-> NoResponse]
    ELSE [raised |-> None,
          response |-> [status_code |-> UpstreamStatus(u), body |-> UpstreamBody(u),
                        url |-> url]]

\* str(n) of the status codes the model uses
StatusText(n) ==
    CASE n = 200 -> <<"200">>
      [] n = 404 -> <<"404">>
      [] n = 405 -> <<"405">>
      [] n = 501 -> <<"501">>
      [] OTHER -> <<"0">>

\* HttpResponse.raise_for_status: the HttpError raised, or None
RaiseForStatus(response) ==
    IF ~(200 <= response.status_code /\ response.status_code < 400)
    THEN Some(Exc("HttpError",
                  <<"HTTP ">> \o StatusText(response.status_code) \o <<" for ">>
                      \o response.url))
    ELSE None

\* session.<method>(...) on a context whose session is None
NoneTypeError(method) ==
    Exc("AttributeError", <<"'NoneType' object has no attribute '", method, "'">>)

JsonDecodeError == Exc("JSONDecodeError", <<"Expecting value: line 1 column 1 (char 0)">>)

(***************************************************************************)
(* Helpers shared by the adapters.                                         *)
(***************************************************************************)
\* d.get(k, default)
DictGet(d, k, default) == IF k \in DOMAIN d THEN d[k] ELSE default

\* d.get(k): an Optional
DictGetOpt(d, k) == IF k \in DOMAIN d THEN Some(d[k]) ELSE None

\* a or b, of two Optional[str]
OrElse(a, b) == IF Truthy(a) THEN a ELSE b

\* f"{x}" of an Optional[str]
Format(opt) == IF opt = None THEN <<"None">> ELSE opt[1]

\* s[:n]
Take(s, n) == SubSeq(s, 1, IF Len(s) < n THEN Len(s) ELSE n)

Dict(f) == [type |-> "dict", v |-> f]

List(s) == [type |-> "list", v |-> s]

\* session.update_headers({"User-Agent": "Williecat/1.0"}) of main: the headers
\* every request of the session carries
SessionUserAgent == <<"Williecat/1.0">>

\* The User-Agent header HttpSession.request sends: it adds the session's headers
\* to the request, then the headers of the call, and a header added twice keeps
\* the value added last.
RequestUserAgent(headers) == IF headers = None THEN SessionUserAgent ELSE headers[1]

\* One network operation, as the log of the run records it: the call, the
\* User-Agent header it carried and what the network answered.
HttpOp(method, url, headers, u) ==
    [op |-> method, url |-> url, ua |-> RequestUserAgent(headers), answer |-> u]

\* socket.getaddrinfo carries no header
ResolveOp(domain, resolver) ==
    [op |-> "getaddrinfo", url |-> domain, ua |-> <<>>, answer |-> resolver]

\* the operations ops, as a call that passes headers={"User-Agent": user_agent}
\* to the session sends them
SentWith(ops, user_agent) ==
    [k \in 1..Len(ops) |-> [ops[k] EXCEPT !.ua = RequestUserAgent(Some(user_agent))]]

\* What an adapter's run did: the result it returned or the exception it let
\* escape, the network operations it performed, and how many upstream answers
\* it consumed.
Returned(result, ops, used) ==
    [raised |-> None, result |-> Some(result), ops |-> ops, used |-> used]

Escaped(e, ops, used) ==
    [raised |-> Some(e), result |-> None, ops |-> ops, used |-> used]

NoGetAttribute(typename) ==
    Exc("AttributeError", <<"'", typename, "' object has no attribute 'get'">>)

\* The body of the adapters' try blocks:
\*     response = session.get(url, ...); response.raise_for_status();
\*     payload = response.json()
\* The exception the block raised, or the body that parsed as JSON.
FetchJson(session, url, u) ==
    IF session = None
    THEN [raised |-> Some(NoneTypeError("get")), body |-> "html", ops |-> <<>>]
    ELSE LET r == Request(url, u)
             ops == <<HttpOp("GET", url, None, u)>>
         IN  IF r.raised # None
             THEN [raised |-> r.raised, body |-> "html", ops |-> ops]
             ELSE IF RaiseForStatus(r.response) # None
             THEN [raised |-> RaiseForStatus(r.response), body |-> "html", ops |-> ops]
             ELSE IF r.response.body = "html"
             THEN [raised |-> Some(JsonDecodeError), body |-> "html", ops |-> ops]
             ELSE [raised |-> None, body |-> r.response.body, ops |-> ops]

(***************************************************************************)
(* modules/whois_lookup.py                                                 *)
(***************************************************************************)
WhoisName == <<"w", "h", "o", "i", "s">>

RDAP_ENDPOINT(domain) == <<"https://rdap.org/domain/">> \o domain

\* The RDAP record the endpoint answers with ("data"), or an empty object.
RdapPayload(body) ==
    IF body = "data"
    THEN [ldhName |-> <<"EXAMPLE.TEST">>,
          status |-> << <<"active">> >>,
          entities |->
              << [roles |-> <<"technical">>],
                 [roles |-> <<"registrar">>,
                  handle |-> <<"REG-1">>,
                  vcardArray |->
                      <<"vcard",
                        << <<"version", "", "text", "4.0">>,
                           <<"fn", "", "text", "Example Registrar">> >> >>] >>,
          events |->
              << [eventAction |-> "registration", eventDate |-> <<"2020-01-01">>],
                 [eventAction |-> "expiration"] >>,
          nameservers |->
              << [ldhName |-> <<"ns1.example.test">>],
                 [unicodeName |-> <<"ns2.example.test">>],
                 [handle |-> <<"NS3">>] >>]
    ELSE <<>>

\* _extract_events: eventAction -> eventDate, the last date given winning
ExtractEvents(events) ==
    LET ok(i) == "eventAction" \in DOMAIN events[i] /\ "eventDate" \in DOMAIN events[i]
                     /\ events[i].eventDate # <<>>
        actions == {events[i].eventAction : i \in {j \in 1..Len(events) : ok(j)}}
        last(a) == CHOOSE i \in 1..Len(events) :
                       /\ ok(i) /\ events[i].eventAction = a
                       /\ \A j \in (i + 1)..Len(events) :
                              ~(ok(j) /\ events[j].eventAction = a)
    IN  [a \in actions |-> events[last(a)].eventDate]

\* _extract_nameservers
RECURSIVE ExtractNameservers(_)
ExtractNameservers(nameservers) ==
    IF nameservers = <<>> THEN <<>>
    ELSE LET name == OrElse(DictGetOpt(Head(nameservers), "ldhName"),
                            DictGetOpt(Head(nameservers), "unicodeName"))
         IN  (IF Truthy(name) THEN <<name[1]>> ELSE <<>>)
                 \o ExtractNameservers(Tail(nameservers))

\* the "fn" item of a vcard's item list
RECURSIVE VcardFn(_)
VcardFn(items) ==
    IF items = <<>> THEN None
    ELSE IF Len(Head(items)) >= 4 /\ Head(items)[1] = "fn"
         THEN Some(<<Head(items)[4]>>)
         ELSE VcardFn(Tail(items))

\* _extract_registrar
RECURSIVE ExtractRegistrar(_)
ExtractRegistrar(entities) ==
    IF entities = <<>> THEN None
    ELSE LET entity == Head(entities)
             roles == DictGet(entity, "roles", <<>>)
             hasRole == \E i \in 1..Len(roles) : roles[i] \in {"registrar", "registrant"}
             fn == IF "vcardArray" \in DOMAIN entity /\ Len(entity.vcardArray) = 2
                   THEN VcardFn(entity.vcardArray[2])
                   ELSE None
             handle == DictGetOpt(entity, "handle")
         IN  IF hasRole /\ fn # None THEN fn
             ELSE IF hasRole /\ Truthy(handle) THEN handle
             ELSE ExtractRegistrar(Tail(entities))

\* WhoisLookupModule.run
WhoisRun(ctx, ups) ==
    IF ~Truthy(ctx.domain)
    THEN Returned(CoreModuleResult(WhoisName, None, <<>>, None,
                                   Some(<<"Domain is required for WHOIS lookups.">>)),
                  <<>>, 0)
    ELSE LET f == FetchJson(ctx.session, RDAP_ENDPOINT(ctx.domain[1]), ups[1])
             data == RdapPayload(f.body)
         IN  IF f.raised # None
             THEN Returned(CoreModuleResult(WhoisName, None, <<>>, None,
                               Some(<<"WHOIS lookup failed: ">> \o f.raised[1].msg)),
                           f.ops, Len(f.ops))
             ELSE IF f.body = "wrongshape"
             THEN Escaped(NoGetAttribute("list"), f.ops, Len(f.ops))
             ELSE Returned(CoreModuleResult(WhoisName,
                               Some(Dict([domain |-> DictGetOpt(data, "ldhName"),
                                          status |-> DictGetOpt(data, "status"),
                                          registrar |->
                                              ExtractRegistrar(DictGet(data, "entities", <<>>)),
                                          events |->
                                              ExtractEvents(DictGet(data, "events", <<>>)),
                                          nameservers |->
                                              ExtractNameservers(
                                                  DictGet(data, "nameservers", <<>>))])),
                               <<>>, None, None),
                           f.ops, Len(f.ops))

(***************************************************************************)
(* modules/header_sniffer.py                                               *)
(***************************************************************************)
HeadersName == <<"h", "e", "a", "d", "e", "r", "s">>

SECURITY_HEADERS ==
    <<"strict-transport-security", "content-security-policy", "x-frame-options",
      "x-content-type-options", "referrer-policy", "permissions-policy",
      "x-xss-protection">>

USER_AGENTS ==
    << <<"Mozilla/5.0 (Windows NT 10.0; Win64; x64) AppleWebKit/537.36 (KHTML, like Gecko) Chrome/120.0 Safari/537.36">>,
       <<"Mozilla/5.0 (Macintosh; Intel Mac OS X 13_2) AppleWebKit/605.1.15 (KHTML, like Gecko) Version/16.2 Safari/605.1.15">>,
       <<"Mozilla/5.0 (X11; Linux x86_64) Gecko/20100101 Firefox/121.0">>,
       <<"curl/8.5.0">> >>

\* the warning of the fallback (its dash is an en dash in the source)
HeadNotSupported == <<"HEAD not supported", " - performed safe GET fallback.">>

\* The response headers, keyed in lower case as CaseInsensitiveHeaders stores them.
ResponseHeaders(body) ==
    CASE body = "data" ->
             [k \in {"server", "strict-transport-security", "x-frame-options"} |->
                 CASE k = "server" -> <<"nginx">>
                   [] k = "strict-transport-security" -> <<"max-age=31536000">>
                   [] OTHER -> <<"DENY">>]
      [] body = "nodata" -> [k \in {"server"} |-> <<"nginx">>]
      [] OTHER -> <<>>

\* the cookies of the session's jar after the request
ResponseCookies(body) ==
    IF body = "data" THEN [k \in {"session"} |-> <<"abc">>] ELSE <<>>

\* the loop over SECURITY_HEADERS: the headers of the list the response carries
SecurityHeaders(headers) ==
    [h \in {SECURITY_HEADERS[i] : i \in 1..Len(SECURITY_HEADERS)} \cap DOMAIN headers |->
        headers[h]]

HeadersUrl(ctx) ==
    IF Truthy(ctx.base_url) THEN ctx.base_url[1] ELSE <<"https://">> \o ctx.domain[1]

\* HeaderSnifferModule.run passes its precondition
HeadersReady(ctx) == Truthy(ctx.base_url) \/ Truthy(ctx.domain)

\* a cycle that is advanced before the precondition is tested
HeadersNextUaBeforePrecondition(ctx, ua) == (ua + 1) % Len(USER_AGENTS)

\* next(self._ua_cycle): the position of the cycle after the run
HeadersNextUa(ctx, ua) == IF HeadersReady(ctx) THEN (ua + 1) % Len(USER_AGENTS) ELSE ua

HeadersMetadata(response, method, user_agent) ==
    Dict([url |-> response.url,
          method |-> method,
          status_code |-> response.status_code,
          server |-> DictGetOpt(ResponseHeaders(response.body), "server"),
          powered_by |-> DictGetOpt(ResponseHeaders(response.body), "x-powered-by"),
          user_agent |-> user_agent,
          cookies |-> ResponseCookies(response.body),
          security_headers |-> SecurityHeaders(ResponseHeaders(response.body))])

\* the same, the method reported being HEAD whatever request was answered
HeadersFinishAsHead(response, method, user_agent, warnings, ops) ==
    Returned(CoreModuleResult(HeadersName,
                 Some(HeadersMetadata(response, <<"HEAD">>, user_agent)),
                 IF DOMAIN SecurityHeaders(ResponseHeaders(response.body)) = {}
                 THEN Append(warnings, <<"No common security headers detected.">>)
                 ELSE warnings,
                 None, None),
             ops, Len(ops))

HeadersFinish(response, method, user_agent, warnings, ops) ==
    Returned(CoreModuleResult(HeadersName,
                 Some(HeadersMetadata(response, method, user_agent)),
                 IF DOMAIN SecurityHeaders(ResponseHeaders(response.body)) = {}
                 THEN Append(warnings, <<"No common security headers detected.">>)
                 ELSE warnings,
                 None, None),
             ops, Len(ops))

\* HeaderSnifferModule.run; ua is the position of _ua_cycle before the run
HeadersRun(ctx, ups, ua) ==
    IF ~HeadersReady(ctx)
    THEN Returned(CoreModuleResult(HeadersName, None, <<>>, None,
                      Some(<<"A domain or URL is required for header sniffing.">>)),
                  <<>>, 0)
    ELSE IF ctx.session = None
    THEN Returned(CoreModuleResult(HeadersName, None, <<>>, None,
                      Some(<<"HEAD request failed: ">> \o NoneTypeError("head").msg)),
                  <<>>, 0)
    ELSE LET url == HeadersUrl(ctx)
             user_agent == USER_AGENTS[ua + 1]
             head == Request(url, ups[1])
             get == Request(url, ups[2])
             request_headers == Some(user_agent)
             headOps == <<HttpOp("HEAD", url, request_headers, ups[1])>>
             getOps == Append(headOps, HttpOp("GET", url, request_headers, ups[2]))
         IN  IF head.raised # None
             THEN Returned(CoreModuleResult(HeadersName, None, <<>>, None,
                               Some(<<"HEAD request failed: ">> \o head.raised[1].msg)),
                           headOps, 1)
             ELSE IF head.response.status_code \notin {405, 501}
             THEN HeadersFinish(head.response, <<"HEAD">>, user_agent, <<>>, headOps)
             ELSE IF get.raised # None
             THEN Returned(CoreModuleResult(HeadersName, None, <<>>, None,
                               Some(<<"HTTP request failed: ">> \o get.raised[1].msg)),
                           getOps, 2)
             ELSE HeadersFinish(get.response, <<"GET (fallback)">>, user_agent,
                                <<HeadNotSupported>>,
                                getOps)

(***************************************************************************)
(* modules/dns_enum.py                                                     *)
(***************************************************************************)
DnsName == <<"d", "n", "s">>

\* DNS_TYPES, in the order the dict is iterated
DNS_TYPES == <<"A", "AAAA", "MX", "NS", "TXT">>

DnsTypeId(t) ==
    CASE t = "A" -> <<"1">>
      [] t = "AAAA" -> <<"28">>
      [] t = "MX" -> <<"15">>
      [] t = "NS" -> <<"2">>
      [] OTHER -> <<"16">>

\* DNS_RESOLVER_URL with the query _merge_url_params adds
DnsUrl(domain, t) ==
    <<"https://dns.google/resolve", "?name=">> \o domain \o <<"&type=">> \o DnsTypeId(t)

\* The resolver's JSON answer.
DnsPayload(body) ==
    CASE body = "data" ->
             [Status |-> 0,
              Answer |-> << [name |-> <<"example.test.">>, data |-> <<"192.0.2.1">>],
                            [name |-> <<"example.test.">>] >>]
      [] body = "nxdomain" -> [Status |-> 3]
      [] OTHER -> [Status |-> 0]

\* the values of the answers that carry data
RECURSIVE DnsValues(_)
DnsValues(answers) ==
    IF answers = <<>> THEN <<>>
    ELSE (IF Truthy(DictGetOpt(Head(answers), "data"))
          THEN <<Head(answers).data>>
          ELSE <<>>) \o DnsValues(Tail(answers))

\* The loop of DnsEnumModule.run, left at the first record type whose lookup fails
RECURSIVE DnsLoopStopsAtFailure(_, _, _, _, _, _)
DnsLoopStopsAtFailure(ctx, ups, i, records, warnings, ops) ==
    IF i > Len(DNS_TYPES)
    THEN Returned(LegacyModuleResult(DnsName,
                      IF DOMAIN records = {} THEN None ELSE Some(Dict(records)),
                      warnings, None),
                  ops, Len(ops))
    ELSE LET t == DNS_TYPES[i]
             f == FetchJson(ctx.session, DnsUrl(ctx.domain[1], t), ups[i])
             payload == DnsPayload(f.body)
             values == DnsValues(DictGet(payload, "Answer", <<>>))
             now == ops \o f.ops
         IN  IF f.raised # None
             THEN DnsLoopStopsAtFailure(ctx, ups, Len(DNS_TYPES) + 1, records,
                      Append(warnings, <<t, " lookup failed: ">> \o f.raised[1].msg), now)
             ELSE IF f.body = "wrongshape"
             THEN Escaped(NoGetAttribute("list"), now, Len(now))
             ELSE IF payload.Status # 0
             THEN DnsLoopStopsAtFailure(ctx, ups, Len(DNS_TYPES) + 1, records,
                      Append(warnings, <<t, " lookup returned status ", "3">>), now)
             ELSE DnsLoopStopsAtFailure(ctx, ups, i + 1,
                      IF values = <<>> THEN records ELSE (t :> values) @@ records,
                      warnings, now)

\* The loop of DnsEnumModule.run from record type i on.
RECURSIVE DnsLoop(_, _, _, _, _, _)
DnsLoop(ctx, ups, i, records, warnings, ops) ==
    IF i > Len(DNS_TYPES)
    THEN Returned(LegacyModuleResult(DnsName,
                      IF DOMAIN records = {} THEN None ELSE Some(Dict(records)),
                      warnings, None),
                  ops, Len(ops))
    ELSE LET t == DNS_TYPES[i]
             f == FetchJson(ctx.session, DnsUrl(ctx.domain[1], t), ups[i])
             payload == DnsPayload(f.body)
             values == DnsValues(DictGet(payload, "Answer", <<>>))
             now == ops \o f.ops
         IN  IF f.raised # None
             THEN DnsLoop(ctx, ups, i + 1, records,
                          Append(warnings, <<t, " lookup failed: ">> \o f.raised[1].msg),
                          now)
             ELSE IF f.body = "wrongshape"
             THEN Escaped(NoGetAttribute("list"), now, Len(now))
             ELSE IF payload.Status # 0
             THEN DnsLoop(ctx, ups, i + 1, records,
                          Append(warnings, <<t, " lookup returned status ", "3">>), now)
             ELSE DnsLoop(ctx, ups, i + 1,
                          IF values = <<>> THEN records ELSE (t :> values) @@ records,
                          warnings, now)

\* DnsEnumModule.run
DnsRun(ctx, ups) ==
    IF ~Truthy(ctx.domain)
    THEN Returned(LegacyModuleResult(DnsName, None, <<>>,
                      Some(<<"Domain is required for DNS enumeration.">>)),
                  <<>>, 0)
    ELSE DnsLoop(ctx, ups, 1, <<>>, <<>>, <<>>)

(***************************************************************************)
(* modules/cert_scraper.py                                                 *)
(***************************************************************************)
CertsName == <<"c", "e", "r", "t", "s">>

\* the limit on the number of records (len(results) >= 25)
CertLimit == 25

CRT_ENDPOINT(query) == <<"https://crt.sh/?q=">> \o query \o <<"&output=json">>

\* str(n) of a number below 100, in two digits
NumText(n) ==
    LET digits == <<"0", "1", "2", "3", "4", "5", "6", "7", "8", "9">>
    IN  <<digits[(n \div 10) + 1], digits[(n % 10) + 1]>>

\* the number of entries of the long answer
BigListLen == 34

\* crt.sh's JSON answer, a list of entries.  "data": two entries of one
\* fingerprint, then two entries without a fingerprint of one common name and name
\* value, then an entry with a sha1 only.  "big": BigListLen entries, every fifth a
\* repeat of the first, the others of a fingerprint each.
CrtPayload(body) ==
    CASE body = "data" ->
           << [common_name |-> <<"example.test">>, name_value |-> <<"example.test">>,
               sha256 |-> <<"aa11">>, issuer_name |-> <<"C=US, O=Demo CA">>],
              [common_name |-> <<"example.test">>, name_value |-> <<"www.example.test">>,
               sha256 |-> <<"aa11">>, issuer_name |-> <<"C=US, O=Demo CA">>],
              [common_name |-> <<"mail.example.test">>,
               name_value |-> <<"mail.example.test">>,
               not_before |-> <<"2024-09-01T00:00:00">>],
              [common_name |-> <<"mail.example.test">>,
               name_value |-> <<"mail.example.test">>,
               not_before |-> <<"2025-09-01T00:00:00">>],
              [common_name |-> <<"old.example.test">>, name_value |-> <<"old.example.test">>,
               sha256 |-> <<>>, sha1 |-> <<"bb22">>] >>
      [] body = "big" ->
           [i \in 1..BigListLen |->
               [common_name |-> <<"host">> \o NumText(i) \o <<".example.test">>,
                name_value |-> <<"host">> \o NumText(i) \o <<".example.test">>,
                sha256 |-> <<"fp">> \o NumText(IF i % 5 = 0 THEN 1 ELSE i)]]
      [] OTHER -> <<>>

\* a key that leaves the fingerprint out
CertKeyWithoutFingerprint(entry) ==
    Format(DictGetOpt(entry, "common_name")) \o <<":">>
        \o Format(DictGetOpt(entry, "name_value"))

\* key = fingerprint or f"{common_name}:{name_value}"
CertKey(entry) ==
    LET fingerprint == OrElse(DictGetOpt(entry, "sha256"), DictGetOpt(entry, "sha1"))
    IN  IF Truthy(fingerprint) THEN fingerprint[1]
        ELSE Format(DictGetOpt(entry, "common_name")) \o <<":">>
                 \o Format(DictGetOpt(entry, "name_value"))

CertRecord(entry) ==
    [common_name |-> DictGetOpt(entry, "common_name"),
     name_value |-> DictGetOpt(entry, "name_value"),
     issuer_name |-> DictGetOpt(entry, "issuer_name"),
     not_before |-> DictGetOpt(entry, "not_before"),
     not_after |-> DictGetOpt(entry, "not_after")]

\* The loop of CertificateScraperModule.run over the payload from entry i on.
RECURSIVE CertLoop(_, _, _, _)
CertLoop(payload, i, seen, records) ==
    IF i > Len(payload) THEN records
    ELSE IF CertKey(payload[i]) \in seen THEN CertLoop(payload, i + 1, seen, records)
    ELSE IF Len(records) + 1 >= CertLimit THEN Append(records, CertRecord(payload[i]))
    ELSE CertLoop(payload, i + 1, seen \cup {CertKey(payload[i])},
                  Append(records, CertRecord(payload[i])))

\* CertificateScraperModule.run
CertsRun(ctx, ups) ==
    IF ~Truthy(ctx.domain)
    THEN Returned(LegacyModuleResult(CertsName, None, <<>>,
                      Some(<<"Domain is required for certificate scraping.">>)),
                  <<>>, 0)
    ELSE LET f == FetchJson(ctx.session, CRT_ENDPOINT(ctx.domain[1]), ups[1])
         IN  IF f.raised # None
             THEN Returned(LegacyModuleResult(CertsName, None, <<>>,
                               Some(<<"crt.sh query failed: ">> \o f.raised[1].msg)),
                           f.ops, Len(f.ops))
             ELSE IF f.body = "wrongshape"
             THEN Escaped(NoGetAttribute("str"), f.ops, Len(f.ops))
             ELSE Returned(LegacyModuleResult(CertsName,
                               Some(List(CertLoop(CrtPayload(f.body), 1, {}, <<>>))),
                               <<>>, None),
                           f.ops, Len(f.ops))

(***************************************************************************)
(* modules/ip_intel.py                                                     *)
(***************************************************************************)
IpName == <<"i", "p">>

IPINFO_ENDPOINT(ip) == <<"https://ipinfo.io/">> \o ip \o <<"/json">>

\* What socket.getaddrinfo does: it raises gaierror, or it lists addresses of which
\* the first of family AF_INET or AF_INET6 is taken, or it lists none of these.
Resolvers == {"gaierror", "address", "otherfamily"}

\* _resolve_domain
ResolveDomain(domain, resolver) ==
    IF resolver = "address" THEN Some(<<"192.0.2.7">>) ELSE None

IpPayload(body) ==
    IF body = "data"
    THEN [ip |-> <<"192.0.2.7">>, city |-> <<"San Francisco">>,
          country |-> <<"US">>, org |-> <<"AS65500 Demo Transit">>]
    ELSE <<>>

\* IpIntelModule.run
IpRun(ctx, ups, resolver) ==
    LET resolves == ~Truthy(ctx.ip_address) /\ Truthy(ctx.domain)
        ip_address == IF resolves THEN ResolveDomain(ctx.domain[1], resolver)
                      ELSE ctx.ip_address
        lookups == IF resolves THEN <<ResolveOp(ctx.domain[1], resolver)>> ELSE <<>>
    IN  IF ~Truthy(ip_address)
        THEN Returned(LegacyModuleResult(IpName, None, <<>>,
                          Some(<<"An IP address or resolvable domain is required.">>)),
                      lookups, 0)
        ELSE LET f == FetchJson(ctx.session, IPINFO_ENDPOINT(ip_address[1]), ups[1])
                 payload == IpPayload(f.body)
             IN  IF f.raised # None
                 THEN Returned(LegacyModuleResult(IpName, None, <<>>,
                                   Some(<<"ipinfo lookup failed: ">> \o f.raised[1].msg)),
                               lookups \o f.ops, Len(f.ops))
                 ELSE IF f.body = "wrongshape"
                 THEN Escaped(NoGetAttribute("list"), lookups \o f.ops, Len(f.ops))
                 ELSE Returned(LegacyModuleResult(IpName,
                                   Some(Dict([ip |-> DictGet(payload, "ip", ip_address[1]),
                                              hostname |-> DictGetOpt(payload, "hostname"),
                                              city |-> DictGetOpt(payload, "city"),
                                              region |-> DictGetOpt(payload, "region"),
                                              country |-> DictGetOpt(payload, "country"),
                                              loc |-> DictGetOpt(payload, "loc"),
                                              org |-> DictGetOpt(payload, "org"),
                                              asn |-> DictGetOpt(payload, "asn"),
                                              bogon |-> DictGetOpt(payload, "bogon")])),
                                   <<>>, None),
                               lookups \o f.ops, Len(f.ops))

(***************************************************************************)
(* modules/social_trace.py                                                 *)
(***************************************************************************)
SocialName == <<"s", "o", "c", "i", "a", "l">>

HN_SEARCH(domain) ==
    <<"https://hn.algolia.com/api/v1/search", "?query=">> \o domain \o <<"&tags=story">>

REDDIT_SEARCH(domain) ==
    <<"https://www.reddit.com/search.json", "?q=">> \o domain
        \o <<"&limit=5&sort=new&type=link">>

\* payload.get("hits", [])[:5] of Hacker News' answer
HnHits(body) ==
    IF body = "data"
    THEN << [title |-> <<"Launch of example.test">>, url |-> <<"https://hn.test/1">>],
            [title |-> <<"Ask HN: example.test?">>, story_url |-> <<"https://hn.test/2">>],
            [title |-> <<"No link">>] >>
    ELSE <<>>

\* payload.get("data", {}).get("children", []) of Reddit's answer
RedditChildren(body) ==
    IF body = "data"
    THEN << [data |-> [title |-> <<"Quiet OSINT">>, url |-> <<"https://reddit.test/a">>,
                       subreddit |-> <<"r/osint">>]],
            [data |-> [title |-> <<"Untitled link">>]] >>
    ELSE <<>>

RECURSIVE HnMap(_)
HnMap(hits) ==
    IF hits = <<>> THEN <<>>
    ELSE LET title == DictGetOpt(Head(hits), "title")
             url == OrElse(DictGetOpt(Head(hits), "url"), DictGetOpt(Head(hits), "story_url"))
         IN  (IF Truthy(title) /\ Truthy(url)
              THEN << [source |-> <<"HackerNews">>, title |-> title[1], url |-> url[1]] >>
              ELSE <<>>) \o HnMap(Tail(hits))

RECURSIVE RedditMap(_)
RedditMap(children) ==
    IF children = <<>> THEN <<>>
    ELSE LET data == DictGet(Head(children), "data", <<>>)
             title == DictGetOpt(data, "title")
             url == DictGetOpt(data, "url")
         IN  (IF Truthy(title) /\ Truthy(url)
              THEN << [source |-> <<"Reddit">>, title |-> title[1], url |-> url[1],
                       subreddit |-> DictGetOpt(data, "subreddit")] >>
              ELSE <<>>) \o RedditMap(Tail(children))

\* headers = {"User-Agent": "WilliecatRecon/1.0"} of _search_reddit
RedditUserAgent == <<"WilliecatRecon/1.0">>

\* _search_hacker_news / _search_reddit: the hits, or the exception that escapes
\* when the payload is not an object.
SocialSearch(ctx, url, u, source) ==
    LET f == FetchJson(ctx.session, url, u)
        ops == IF source = "hn" THEN f.ops ELSE SentWith(f.ops, RedditUserAgent)
    IN  IF f.raised # None THEN [raised |-> None, hits |-> <<>>, ops |-> ops]
        ELSE IF f.body = "wrongshape"
        THEN [raised |-> Some(NoGetAttribute("list")), hits |-> <<>>, ops |-> ops]
        ELSE [raised |-> None,
              hits |-> IF source = "hn" THEN HnMap(Take(HnHits(f.body), 5))
                       ELSE RedditMap(RedditChildren(f.body)),
              ops |-> ops]

\* SocialTraceModule.run
SocialRun(ctx, ups) ==
    IF ~Truthy(ctx.domain)
    THEN Returned(LegacyModuleResult(SocialName, None, <<>>,
                      Some(<<"Domain is required for social tracing.">>)),
                  <<>>, 0)
    ELSE LET hn == SocialSearch(ctx, HN_SEARCH(ctx.domain[1]), ups[1], "hn")
             reddit == SocialSearch(ctx, REDDIT_SEARCH(ctx.domain[1]), ups[2], "reddit")
             hits == hn.hits \o reddit.hits
             ops == hn.ops \o reddit.ops
         IN  IF hn.raised # None THEN Escaped(hn.raised[1], hn.ops, Len(hn.ops))
             ELSE IF reddit.raised # None THEN Escaped(reddit.raised[1], ops, Len(ops))
             ELSE IF hits = <<>>
             THEN Returned(LegacyModuleResult(SocialName, None,
                               << <<"No social mentions discovered.">> >>, None),
                           ops, Len(ops))
             ELSE Returned(LegacyModuleResult(SocialName, Some(List(hits)), <<>>, None),
                           ops, Len(ops))

(***************************************************************************)
(* modules/__init__.py: the registry and name resolution.                  *)
(***************************************************************************)
RegisteredNames == {WhoisName, DnsName, CertsName, HeadersName, IpName, SocialName}

\* a registry of the six names whose classes carry no description
get_module_registry_undescribed ==
    [n \in RegisteredNames |-> [cls |-> "ReconModule", name |-> n, description |-> <<>>]]

\* get_module_registry: module name -> class (its name and description attributes)
get_module_registry ==
    [n \in RegisteredNames |->
        CASE n = WhoisName ->
                 [cls |-> "WhoisLookupModule", name |-> WhoisName,
                  description |-> <<"Domain registration details via public RDAP.">>]
          [] n = DnsName ->
                 [cls |-> "DnsEnumModule", name |-> DnsName,
                  description |-> <<"Passive DNS record discovery via DNS-over-HTTPS.">>]
          [] n = CertsName ->
                 [cls |-> "CertificateScraperModule", name |-> CertsName,
                  description |-> <<"Certificate Transparency lookup via crt.sh.">>]
          [] n = HeadersName ->
                 [cls |-> "HeaderSnifferModule", name |-> HeadersName,
                  description |->
                      <<"Collect HTTP response headers from the target application.">>]
          [] n = IpName ->
                 [cls |-> "IpIntelModule", name |-> IpName,
                  description |-> <<"Passive IP intelligence using ipinfo.io.">>]
          [] OTHER ->
                 [cls |-> "SocialTraceModule", name |-> SocialName,
                  description |-> <<"Passive OSINT mentions from Reddit and Hacker News.">>]]

\* key = name.strip().lower()
NormalizeName(name) == StrLower(StrStrip(name))

\* The loop of iter_modules from name i on: the KeyError it raises, or the keys.
RECURSIVE IterLoop(_, _, _)
IterLoop(module_names, i, resolved) ==
    IF i > Len(module_names) THEN [raised |-> None, resolved |-> resolved]
    ELSE IF NormalizeName(module_names[i]) \notin DOMAIN get_module_registry
    THEN [raised |-> Some(Exc("KeyError", <<"Unknown module: ">> \o module_names[i])),
          resolved |-> <<>>]
    ELSE IterLoop(module_names, i + 1, Append(resolved, NormalizeName(module_names[i])))

\* the names that are registered, the others left out
RECURSIVE SkipLoop(_, _, _)
SkipLoop(module_names, i, resolved) ==
    IF i > Len(module_names) THEN [raised |-> None, resolved |-> resolved]
    ELSE IF NormalizeName(module_names[i]) \notin DOMAIN get_module_registry
    THEN SkipLoop(module_names, i + 1, resolved)
    ELSE SkipLoop(module_names, i + 1, Append(resolved, NormalizeName(module_names[i])))

iter_modules_skip_unknown(module_names) == SkipLoop(module_names, 1, <<>>)

iter_modules_drop_duplicates(module_names) ==
    LET r == IterLoop(module_names, 1, <<>>)
        keep == {i \in 1..Len(r.resolved) :
                    \A j \in 1..(i - 1) : r.resolved[j] # r.resolved[i]}
        RECURSIVE pick(_)
        pick(i) == IF i > Len(r.resolved) THEN <<>>
                   ELSE (IF i \in keep THEN <<r.resolved[i]>> ELSE <<>>) \o pick(i + 1)
    IN  [raised |-> r.raised, resolved |-> pick(1)]

iter_modules(module_names) == IterLoop(module_names, 1, <<>>)

\* str(KeyError(message)) is repr(message)
KeyErrorText(e) == <<"'">> \o e.msg \o <<"'">>

(***************************************************************************)
(* core.py ReconContext and demo.py.                                       *)
(***************************************************************************)
\* the exit status of parser.error
UsageExit == 2

\* the exit status of a process whose main raised
TracebackExit == 1

\* the default of --timeout and of ReconContext.timeout
DefaultTimeout == 10

\* the timeout of the demo context
DemoTimeout == 5

\* ReconContext(): every field at its default
ReconContext ==
    [domain |-> None, ip_address |-> None, base_url |-> None,
     timeout |-> DefaultTimeout, session |-> None]

DEMO_DOMAIN == <<"demo.williecat.io">>

DEMO_IP == <<"203.0.113.42">>

DEMO_URL == <<"https://">> \o DEMO_DOMAIN

DemoContext ==
    [domain |-> Some(DEMO_DOMAIN), ip_address |-> Some(DEMO_IP),
     base_url |-> Some(DEMO_URL), timeout |-> DemoTimeout, session |-> None]

\* load_demo_run: the canned results
DemoResults ==
    << CoreModuleResult(WhoisName,
           Some(Dict([domain |-> Some(DEMO_DOMAIN),
                      registrar |-> Some(<<"Example Registrar LLC">>),
                      nameservers |-> << <<"ns1.demo-cat.net">>, <<"ns2.demo-cat.net">> >>])),
           <<>>, None, None),
       CoreModuleResult(HeadersName,
           Some(Dict([url |-> DEMO_URL, method |-> <<"HEAD">>, status_code |-> 200,
                      server |-> Some(<<"nginx/1.25.2">>),
                      user_agent |-> <<"Williecat/POC">>])),
           <<HeadNotSupported>>, None, None),
       CoreModuleResult(DnsName,
           Some(Dict([A |-> <<DEMO_IP>>, AAAA |-> << <<"2001:db8::42">> >>])),
           <<>>, None, None),
       CoreModuleResult(CertsName,
           Some(List(<< [common_name |-> Some(DEMO_DOMAIN),
                         name_value |-> Some(DEMO_DOMAIN)] >>)),
           <<>>, None, None),
       CoreModuleResult(IpName,
           Some(Dict([ip |-> DEMO_IP, city |-> Some(<<"San Francisco">>)])),
           <<>>, None, None),
       CoreModuleResult(SocialName,
           Some(List(<< [source |-> <<"HackerNews">>,
                         title |-> <<"Launch of demo.williecat.io passive recon portal">>,
                         url |-> <<"https://news.ycombinator.com/item?id=424242">>] >>)),
           <<>>, None, None) >>

(***************************************************************************)
(* cli.py: the command lines the model is given.                           *)
(***************************************************************************)
DEFAULT_MODULES == <<WhoisName, HeadersName, DnsName, CertsName, IpName, SocialName>>

\* The names typed between the commas of --modules: registered names in several
\* spellings, and names that are not registered.
RawNames ==
    { <<"w", "h", "o", "i", "s">>,
      <<" ", "C", "e", "r", "t", "s", "\t">>,
      <<"I", "P">>,
      <<" ", "N", "o", "p", "e">>,
      <<"d", " ", "n", "s">> }

Requests == UNION {[1..n -> RawNames] : n \in 1..MaxReq}

\* --domain, --ip and --url: none, one of them, or all three
Targets ==
    LET all == {[domain |-> d, ip |-> i, url |-> u] :
                   d \in {None, Some(<<"example.test">>)},
                   i \in {None, Some(<<"198.51.100.9">>)},
                   u \in {None, Some(<<"https://example.test/app">>)}}
        given(t) == Cardinality({f \in {"domain", "ip", "url"} : t[f] # None})
    IN  {t \in all : given(t) # 2}

\* --output and --json-output, each given or not
Outputs ==
    {[output |-> o, json_output |-> j] :
        o \in {None, Some(<<"report.md">>)}, j \in {None, Some(<<"report.json">>)}}

Argv(demo, m, t, o) ==
    [demo |-> demo, modules |-> m, domain |-> t.domain, ip |-> t.ip, url |-> t.url,
     output |-> o.output, json_output |-> o.json_output]

NoTarget == [domain |-> None, ip |-> None, url |-> None]

\* The command lines: live runs with both reports or none, demo runs with any.
Argvs ==
    {Argv(FALSE, m, t, o) :
        m \in {None} \cup {Some(JoinCommas(r)) : r \in Requests}, t \in Targets,
        o \in {x \in Outputs : (x.output = None) <=> (x.json_output = None)}}
    \cup {Argv(TRUE, None, NoTarget, o) : o \in Outputs}

\* The upstream answers an adapter may be given.
JsonUpstream == {"ok", "empty", "wrongshape", "notjson", "status404", "timeout", "refused"}

DnsUpstream == JsonUpstream \cup {"nxdomain"}

CertsUpstream == JsonUpstream \cup {"big"}

HeadUpstream == {"ok", "empty", "status404", "status405", "status501", "timeout", "refused"}

\* The sequences of n upstream answers of which at most b are counted by MaxFaults.
RECURSIVE Behaviours(_, _, _)
Behaviours(n, U, b) ==
    IF n = 0 THEN {<<>>}
    ELSE UNION {{<<u>> \o r : r \in Behaviours(n - 1, U, IF IsFault(u) THEN b - 1 ELSE b)} :
                   u \in IF b > 0 THEN U ELSE U \cap {"ok"}}

FaultCount(ups, used) == Cardinality({i \in 1..used : IsFault(ups[i])})

(***************************************************************************)
(* cli.py: main and _execute_modules.                                      *)
(***************************************************************************)
\* the value of `modules` main computes from --modules
RequestedModules(args) ==
    IF Truthy(args.modules)
    THEN iter_modules(SplitCommas(args.modules[1]))
    ELSE [raised |-> None, resolved |-> DEFAULT_MODULES]

HasTarget(args) == Truthy(args.domain) \/ Truthy(args.ip) \/ Truthy(args.url)

harnessVars == <<exc, classified>>

\* what _emit_reports writes
outVars == <<reports, log, logError>>

runVars == <<modules, context, idx, results, raised, net, instantiated, uaIndex, faults>>

\* main with --demo: the canned run, no adapter is executed.
StartDemo ==
    /\ pc = "start"
    /\ argv.demo
    /\ context' = DemoContext
    /\ results' = DemoResults
    /\ modules' = [i \in 1..Len(DemoResults) |-> DemoResults[i].module]
    /\ pc' = "report"
    /\ UNCHANGED <<argv, budget, outVars, exitCode, idx, raised, exitMsg, net,
                   instantiated, uaIndex, faults, harnessVars>>

\* main: iter_modules raises KeyError and parser.error ends the process.
StartUnknownModule ==
    /\ pc = "start"
    /\ ~argv.demo
    /\ RequestedModules(argv).raised # None
    /\ exitMsg' = Some(KeyErrorText(RequestedModules(argv).raised[1]))
    /\ exitCode' = Some(UsageExit)
    /\ pc' = "usage_error"
    /\ UNCHANGED <<argv, budget, outVars, runVars, harnessVars>>

\* main: the module list is valid and no target is given.
StartNoTarget ==
    /\ pc = "start"
    /\ ~argv.demo
    /\ RequestedModules(argv).raised = None
    /\ ~HasTarget(argv)
    /\ exitMsg' = Some(<<"At least one of --domain, --ip, or --url must be provided.">>)
    /\ exitCode' = Some(UsageExit)
    /\ pc' = "usage_error"
    /\ UNCHANGED <<argv, budget, outVars, runVars, harnessVars>>

\* main: the session and the context are built and _execute_modules is entered.
StartLive ==
    /\ pc = "start"
    /\ ~argv.demo
    /\ RequestedModules(argv).raised = None
    /\ HasTarget(argv)
    /\ modules' = RequestedModules(argv).resolved
    /\ context' = [domain |-> argv.domain, ip_address |-> argv.ip, base_url |-> argv.url,
                   timeout |-> DefaultTimeout, session |-> Some("HttpSession")]
    /\ idx' = 1
    /\ pc' = "exec"
    /\ UNCHANGED <<argv, budget, outVars, exitCode, results, raised, exitMsg, net,
                   instantiated, uaIndex, faults, harnessVars>>

\* the context after a run of an ip adapter that stores the address it resolved
ContextAfterRunWritesBack(ctx, name, outcome) ==
    IF name = IpName /\ ~Truthy(ctx.ip_address) /\ outcome.ops # <<>>
    THEN [ctx EXCEPT !.ip_address = Some(<<"192.0.2.7">>)]
    ELSE ctx

\* The context after module.run(context): no adapter assigns an attribute of the
\* context (the URL header_sniffer.py derives and the address ip_intel.py resolves
\* are local variables of run).
ContextAfterRun(ctx, name, outcome) == ctx

\* the network operations of the module at position i, as the log keeps them
Logged(ops, i) ==
    [k \in 1..Len(ops) |->
        [op |-> ops[k].op, url |-> ops[k].url, ua |-> ops[k].ua,
         answer |-> ops[k].answer, at |-> i]]

\* One iteration of the loop of _execute_modules, given what module.run did:
\*     module = registry[name](); result = module.run(context); results.append(result)
\* An exception that run lets escape leaves the loop, _execute_modules and main.
Iteration(name, outcome, ups) ==
    /\ instantiated' = Append(instantiated, get_module_registry[name].cls)
    /\ net' = net \o Logged(outcome.ops, idx)
    /\ faults' = faults + FaultCount(ups, outcome.used)
    /\ IF outcome.raised = None
       THEN /\ results' = Append(results, outcome.result[1])
            /\ idx' = idx + 1
            /\ UNCHANGED <<pc, raised, exitCode>>
       ELSE /\ raised' = outcome.raised
            /\ exitCode' = Some(TracebackExit)
            /\ pc' = "crashed"
            /\ UNCHANGED <<results, idx>>
    /\ context' = ContextAfterRun(context, name, outcome)
    /\ UNCHANGED <<argv, budget, outVars, modules, exitMsg, harnessVars>>

\* the loop is at a module of the given name
At(name) == pc = "exec" /\ idx <= Len(modules) /\ modules[idx] = name

RunWhois ==
    /\ At(WhoisName)
    /\ \E ups \in Behaviours(1, JsonUpstream, budget - faults) :
           Iteration(WhoisName, WhoisRun(context, ups), ups)
    /\ UNCHANGED uaIndex

RunHeaders ==
    /\ At(HeadersName)
    /\ \E ups \in Behaviours(2, HeadUpstream, budget - faults) :
           Iteration(HeadersName, HeadersRun(context, ups, uaIndex), ups)
    /\ uaIndex' = HeadersNextUa(context, uaIndex)

RunDns ==
    /\ At(DnsName)
    /\ \E ups \in Behaviours(Len(DNS_TYPES), DnsUpstream, budget - faults) :
           Iteration(DnsName, DnsRun(context, ups), ups)
    /\ UNCHANGED uaIndex

RunCerts ==
    /\ At(CertsName)
    /\ \E ups \in Behaviours(1, CertsUpstream, budget - faults) :
           Iteration(CertsName, CertsRun(context, ups), ups)
    /\ UNCHANGED uaIndex

RunIp ==
    /\ At(IpName)
    /\ \E ups \in Behaviours(1, JsonUpstream, budget - faults), resolver \in Resolvers :
           Iteration(IpName, IpRun(context, ups, resolver), ups)
    /\ UNCHANGED uaIndex

RunSocial ==
    /\ At(SocialName)
    /\ \E ups \in Behaviours(2, JsonUpstream, budget - faults) :
           Iteration(SocialName, SocialRun(context, ups), ups)
    /\ UNCHANGED uaIndex

\* _execute_modules returns the results to main.
ReturnResults ==
    /\ pc = "exec"
    /\ idx > Len(modules)
    /\ pc' = "report"
    /\ UNCHANGED <<argv, budget, outVars, exitCode, runVars, exitMsg, harnessVars>>

\* The record _log_run builds (its timestamp, the clock's reading, is left out).
LogRecord(ctx, names, rs, output_path, json_path) ==
    [domain |-> ctx.domain,
     ip_address |-> ctx.ip_address,
     base_url |-> ctx.base_url,
     modules |-> names,
     output |-> output_path,
     json_output |-> json_path,
     results |-> [i \in 1..Len(rs) |-> as_dict(rs[i])]]

\* the files _emit_reports writes through modules/reporter
WrittenReports(output_path, json_path) ==
    (IF Truthy(output_path) THEN <<[kind |-> "markdown", path |-> output_path[1]]>>
     ELSE <<>>)
    \o (IF Truthy(json_path) THEN <<[kind |-> "json", path |-> json_path[1]]>> ELSE <<>>)

\* main: _emit_reports (the reports, then _log_run, whose append to PAWPRINTS_PATH
\* the file system may refuse with an OSError that is caught), then return 0.
EmitReports ==
    /\ pc = "report"
    /\ reports' = WrittenReports(argv.output, argv.json_output)
    /\ \E writable \in BOOLEAN :
           IF writable
           THEN /\ log' = Append(log, LogRecord(context, modules, results,
                                                argv.output, argv.json_output))
                /\ UNCHANGED logError
           ELSE /\ logError' = Some(Exc("OSError", <<"Permission denied">>))
                /\ UNCHANGED log
    /\ exitCode' = Some(0)
    /\ pc' = "done"
    /\ UNCHANGED <<argv, budget, runVars, exitMsg, harnessVars>>

\* The state when main is entered with one of the given command lines.
InitWith(argvs, faultBudget) ==
    /\ argv \in argvs
    /\ pc = "start"
    /\ modules = <<>>
    /\ context = ReconContext
    /\ idx = 1
    /\ results = <<>>
    /\ raised = None
    /\ exitMsg = None
    /\ net = <<>>
    /\ instantiated = <<>>
    /\ uaIndex = 0
    /\ faults = 0
    /\ budget = faultBudget
    /\ reports = <<>>
    /\ log = <<>>
    /\ logError = None
    /\ exitCode = None
    /\ exc = Exc("Exception", <<>>)
    /\ classified = None

Init == InitWith(Argvs, MaxFaults)

Next ==
    \/ StartDemo
    \/ StartUnknownModule
    \/ StartNoTarget
    \/ StartLive
    \/ RunWhois
    \/ RunHeaders
    \/ RunDns
    \/ RunCerts
    \/ RunIp
    \/ RunSocial
    \/ ReturnResults
    \/ EmitReports

Spec == Init /\ [][Next]_vars

(***************************************************************************)
(* One adapter on its own: main given a single module name, the upstream   *)
(* free to fail at every call of the adapter.                              *)
(***************************************************************************)
SingleArgvs ==
    {Argv(FALSE, Some(n), t, o) :
        n \in RegisteredNames \cup {<<"b", "o", "g", "u", "s">>},
        t \in {NoTarget,
               [domain |-> Some(<<"example.test">>), ip |-> None, url |-> None],
               [domain |-> None, ip |-> Some(<<"198.51.100.9">>), url |-> None],
               [domain |-> None, ip |-> None, url |-> Some(<<"https://example.test/app">>)]},
        o \in {[output |-> None, json_output |-> None]}}
    \cup {Argv(TRUE, None, NoTarget, [output |-> None, json_output |-> None])}

InitSingle == InitWith(SingleArgvs, MaxSingleFaults)

SpecSingle == InitSingle /\ [][Next]_vars

(***************************************************************************)
(* The classifier on its own: classify_exception applied to an exception   *)
(* drawn from a bounded set of classes, messages and reasons.              *)
(***************************************************************************)
\* Messages that hold "timed out" in some letter case.
TimedOutTexts ==
    { <<"t", "i", "m", "e", "d", " ", "o", "u", "t">>,
      <<"T", "i", "m", "e", "d", " ", "O", "u", "t">>,
      <<"r", "e", "a", "d", " ", "T", "I", "M", "E", "D", " ", "O", "U", "T", "!">> }

\* Messages that do not.
OtherTexts ==
    { <<>>,
      <<"r", "e", "f", "u", "s", "e", "d">>,
      <<"t", "i", "m", "e", "d", "o", "u", "t">>,
      <<"t", "i", "m", "e", " ", "o", "u", "t">> }

Texts == TimedOutTexts \cup OtherTexts

TimeoutClasses == {"TimeoutError", "socket.timeout"}

PlainClasses ==
    TimeoutClasses \cup {"ConnectionRefusedError", "OSError", "HttpError", "RuntimeError",
                         "JSONDecodeError", "AttributeError"}

\* str(HTTPError(url, 504, msg, hdrs, fp)) is "HTTP Error 504: msg"; its reason is msg
HttpErrorOf(msg) ==
    [type |-> "HTTPError",
     msg |-> <<"H", "T", "T", "P", " ", "E", "r", "r", "o", "r", " ", "5", "0", "4", ":", " ">>
                 \o msg,
     reason |-> [type |-> "str", msg |-> msg]]

Exceptions ==
    {Exc(c, m) : c \in PlainClasses, m \in Texts}
    \cup {UrlError([type |-> c, msg |-> m]) :
             c \in {"str", "TimeoutError", "socket.timeout", "ConnectionRefusedError"},
             m \in Texts}
    \cup {HttpErrorOf(m) : m \in Texts}

InitClassify ==
    /\ exc \in Exceptions
    /\ classified = None
    /\ argv = Argv(TRUE, None, NoTarget, [output |-> None, json_output |-> None])
    /\ pc = "idle"
    /\ modules = <<>>
    /\ context = ReconContext
    /\ idx = 1
    /\ results = <<>>
    /\ raised = None
    /\ exitMsg = None
    /\ net = <<>>
    /\ instantiated = <<>>
    /\ uaIndex = 0
    /\ faults = 0
    /\ budget = MaxFaults
    /\ reports = <<>>
    /\ log = <<>>
    /\ logError = None
    /\ exitCode = None

Classify ==
    /\ classified = None
    /\ classified' = Some(classify_exception(exc))
    /\ UNCHANGED <<exc, mainVars>>

NextClassify == Classify

SpecClassify == InitClassify /\ [][NextClassify]_vars

(***************************************************************************)
(* The header adapter called several times in one process, each call with  *)
(* a context of its own: _ua_cycle is an attribute of the class, shared by *)
(* every instance and every call.                                          *)
(***************************************************************************)
MaxRuns == 6

\* the contexts of the calls: without a target, with a domain, and with a domain
\* but no session
RotationContexts ==
    LET session == Some("HttpSession")
        Context(d, u, se) == [domain |-> d, ip_address |-> None, base_url |-> u,
                              timeout |-> DefaultTimeout, session |-> se]
    IN  { Context(None, None, session),
          Context(Some(<<"example.com">>), None, session),
          Context(Some(<<"example.com">>), None, None) }

\* what the network answers the HEAD and the GET of a call
RotationAnswers == {<<"ok", "ok">>, <<"status405", "ok">>, <<"timeout", "ok">>}

InitRotation ==
    /\ argv = Argv(FALSE, None, NoTarget, [output |-> None, json_output |-> None])
    /\ pc = "calls"
    /\ modules = <<>>
    /\ context = ReconContext
    /\ idx = 1
    /\ results = <<>>
    /\ raised = None
    /\ exitMsg = None
    /\ net = <<>>
    /\ instantiated = <<>>
    /\ uaIndex = 0
    /\ faults = 0
    /\ budget = MaxFaults
    /\ reports = <<>>
    /\ log = <<>>
    /\ logError = None
    /\ exitCode = None
    /\ exc = Exc("ValueError", <<>>)
    /\ classified = None

\* result = HeaderSnifferModule().run(context); an exception that run lets
\* escape ends the calls
CallHeaders ==
    /\ pc = "calls"
    /\ idx <= MaxRuns
    /\ \E ctx \in RotationContexts, ups \in RotationAnswers :
           LET outcome == HeadersRun(ctx, ups, uaIndex)
           IN  /\ context' = ctx
               /\ net' = net \o Logged(outcome.ops, idx)
               /\ uaIndex' = HeadersNextUa(ctx, uaIndex)
               /\ IF outcome.raised = None
                  THEN /\ results' = Append(results, outcome.result[1])
                       /\ idx' = idx + 1
                       /\ UNCHANGED <<pc, raised>>
                  ELSE /\ raised' = outcome.raised
                       /\ pc' = "crashed"
                       /\ UNCHANGED <<results, idx>>
    /\ instantiated' = Append(instantiated, get_module_registry[HeadersName].cls)
    /\ UNCHANGED <<argv, modules, exitMsg, faults, budget, outVars, exitCode,
                   harnessVars>>

NextRotation == CallHeaders

SpecRotation == InitRotation /\ [][NextRotation]_vars

(***************************************************************************)
(* Properties.                                                             *)
(***************************************************************************)
\* the names between the commas of --modules, as iter_modules receives them
Requested == IF Truthy(argv.modules) THEN SplitCommas(argv.modules[1]) ELSE <<>>

\* a live run (not --demo) that was given --modules
LiveWithModules == ~argv.demo /\ Truthy(argv.modules)

\* raw without its leading and trailing whitespace: from its first to its last
\* character that is not whitespace
TrimOf(raw) ==
    LET keep == {k \in 1..Len(raw) : raw[k] \notin Whitespace}
        first == CHOOSE k \in keep : \A j \in keep : k <= j
        last == CHOOSE k \in keep : \A j \in keep : j <= k
    IN  IF keep = {} THEN <<>> ELSE SubSeq(raw, first, last)

\* raw spells the registered name n: trimmed, it is n up to letter case
Spells(raw, n) ==
    LET t == TrimOf(raw)
    IN  /\ Len(t) = Len(n)
        /\ \A k \in 1..Len(n) : LowerChar(t[k]) = n[k]

IsRegistered(raw) == \E n \in RegisteredNames : Spells(raw, n)

KeyOf(raw) == CHOOSE n \in RegisteredNames : Spells(raw, n)

\* C1: when a live run's orchestration has ended, by returning or by an adapter
\* raising, there is one result per requested module, in the order of the request,
\* the i-th result carrying the i-th requested name.
C1_ResultPerRequestedModule ==
    (~argv.demo /\ pc \in {"report", "done", "crashed"}) =>
        /\ Len(results) = Len(modules)
        /\ \A i \in 1..Len(results) : results[i].module = modules[i]

\* C2: an exception that an adapter's run raised does not end the run: it has become
\* a failure result at that module's position, tagged with the module's name and
\* with the outcome classify_exception gives, and the loop goes on.
C2_RaisingAdapterIsolated ==
    raised # None =>
        /\ pc # "crashed"
        /\ Len(results) >= idx
        /\ results[idx].module = modules[idx]
        /\ OutcomeOf(results[idx]) = Some(classify_exception(raised[1]))

\* C3: a request that holds a name that is not registered (trimmed, in lower case)
\* ends in the unknown-module error naming the first such raw name, with no adapter
\* instantiated or run, no network operation performed and no result produced.
C3_UnknownNameFailsFast ==
    LET req == Requested
        unknown == {i \in 1..Len(req) : ~IsRegistered(req[i])}
        bad == CHOOSE i \in unknown : \A j \in unknown : i <= j
    IN  (LiveWithModules /\ unknown # {}) =>
            /\ pc \in {"start", "usage_error"}
            /\ instantiated = <<>>
            /\ net = <<>>
            /\ results = <<>>
            /\ modules = <<>>
            /\ pc = "usage_error" =>
                   /\ exitMsg # None
                   /\ Contains(exitMsg[1], <<"Unknown module: ">> \o req[bad])

\* C3 witness: the run ended in the error on a request whose first name is registered
\* and whose second is not, with a target given.
C3_Witness ==
    /\ pc = "usage_error"
    /\ HasTarget(argv)
    /\ Len(Requested) = 2
    /\ IsRegistered(Requested[1])
    /\ ~IsRegistered(Requested[2])

\* C4: no adapter's run lets an exception escape, whatever the upstream does.
C4_RunNeverRaises == raised = None

\* C5: in every result, an error is present exactly when the outcome is timeout or
\* blocked.
C5_ErrorIffFailureOutcome ==
    \A i \in 1..Len(results) :
        (results[i].error # None) <=>
            (OutcomeOf(results[i]) \in {Some(OUTCOME_TIMEOUT), Some(OUTCOME_BLOCKED)})

\* C6: a result of whois, headers, certs or ip that reports an upstream call that
\* timed out has the outcome timeout.
C6_TimeoutSurfacesAsTimeout ==
    \A i \in 1..Len(results) :
        (/\ results[i].module \in {WhoisName, HeadersName, CertsName, IpName}
         /\ results[i].error # None
         /\ Contains(results[i].error[1], TimedOut)) =>
            OutcomeOf(results[i]) = Some(OUTCOME_TIMEOUT)

\* the exception's text as it was constructed: its message, or its reason's
SourceText(e) == IF e.reason.type = "none" THEN e.msg ELSE e.reason.msg

\* a timeout-shaped error: of a timeout class, or a URL error whose reason is of a
\* timeout class, or one whose text holds "timed out" in some letter case
TimeoutShaped(e) ==
    \/ e.type \in TimeoutClasses
    \/ e.reason.type \in TimeoutClasses
    \/ SourceText(e) \in TimedOutTexts

\* C7: classify_exception gives timeout for every timeout-shaped error and blocked
\* for every other exception.
C7_ClassifiesTimeouts ==
    classified # None =>
        classified[1] = IF TimeoutShaped(exc) THEN OUTCOME_TIMEOUT ELSE OUTCOME_BLOCKED

\* C7 witness: an exception of no timeout class whose message holds "Timed Out" in
\* mixed case has been classified as timeout.
C7_Witness ==
    /\ classified = Some(OUTCOME_TIMEOUT)
    /\ exc.type = "HttpError"
    /\ exc.msg = <<"T", "i", "m", "e", "d", " ", "O", "u", "t">>

\* the messages of the adapters' precondition failures
PreconditionErrors ==
    { <<"Domain is required for WHOIS lookups.">>,
      <<"Domain is required for DNS enumeration.">>,
      <<"Domain is required for certificate scraping.">>,
      <<"Domain is required for social tracing.">>,
      <<"A domain or URL is required for header sniffing.">>,
      <<"An IP address or resolvable domain is required.">> }

\* C8: a result that reports an adapter's precondition failure has the outcome
\* blocked, a non-empty error and no data, and its adapter performed no network
\* operation (no HTTP request and no name resolution).
C8_PreconditionFailsWithoutNetwork ==
    \A i \in 1..Len(results) :
        (results[i].error # None /\ results[i].error[1] \in PreconditionErrors) =>
            /\ OutcomeOf(results[i]) = Some(OUTCOME_BLOCKED)
            /\ Truthy(results[i].error)
            /\ results[i].data = None
            /\ \A k \in 1..Len(net) : net[k].at # i

\* C9: a request whose names are all registered resolves to a list of the same
\* length whose i-th element is the i-th name trimmed and in lower case; the
\* order is the request's and a name given twice is kept twice.
C9_NamesNormalizedInOrder ==
    LET req == Requested
    IN  (/\ pc # "start"
         /\ LiveWithModules
         /\ HasTarget(argv)
         /\ \A i \in 1..Len(req) : IsRegistered(req[i])) =>
            /\ pc # "usage_error"
            /\ Len(modules) = Len(req)
            /\ \A i \in 1..Len(modules) : modules[i] = KeyOf(req[i])

\* C9 witness: a request that names one module twice, in a spelling that is not
\* the registered one, has been resolved and both are kept.
C9_Witness ==
    /\ pc = "exec"
    /\ Len(Requested) = 2
    /\ Requested[1] = Requested[2]
    /\ Len(modules) = 2
    /\ modules[1] = modules[2]
    /\ modules[1] # Requested[1]

\* C10: every result converts to a record of exactly the five fields module,
\* outcome, data, warnings and error, its outcome one of the four outcomes.
C10_FiveFieldRecord ==
    \A i \in 1..Len(results) :
        /\ DOMAIN as_dict(results[i]) = {"module", "outcome", "data", "warnings", "error"}
        /\ as_dict(results[i]).outcome \in Outcomes

\* the network operations the module at position i performed, in order
OpsAt(i) == SelectSeq(net, LAMBDA e : e.at = i)

\* the upstream answered the call with a response (it did not raise)
Responded(u) == u \notin {"timeout", "refused"}

\* the value of a field of a result's data mapping
DataField(r, field) == r.data[1].v[field]

\* a warning of the result mentions that HEAD is not supported
WarnsHeadUnsupported(r) ==
    \E w \in 1..Len(r.warnings) : Contains(r.warnings[w], <<"HEAD not supported">>)

\* C11: a result constructed without an explicit outcome (every result of the
\* adapters and of the demo dataset is) has the outcome blocked if it has an error,
\* else no_data if it has no data, else success, an empty collection included.
C11_OutcomeDerivedFromFields ==
    \A i \in 1..Len(results) :
        OutcomeOf(results[i]) =
            Some(IF results[i].error # None THEN OUTCOME_BLOCKED
                 ELSE IF results[i].data = None THEN OUTCOME_NO_DATA
                 ELSE OUTCOME_SUCCESS)

\* C12: header inspection issues HEAD first and a GET to the same URL exactly when
\* the HEAD response has status 405 or 501.  A fallback GET that is answered gives
\* outcome success, method "GET (fallback)", the GET's status code and a warning
\* that HEAD is not supported; a HEAD answered with another status gives method
\* "HEAD" and no GET.
C12_HeadThenGetFallback ==
    \A i \in 1..Len(results) :
        (results[i].module = HeadersName /\ OpsAt(i) # <<>>) =>
            LET ops == OpsAt(i)
                r == results[i]
                fallback == /\ Responded(ops[1].answer)
                            /\ UpstreamStatus(ops[1].answer) \in {405, 501}
            IN  /\ ops[1].op = "HEAD"
                /\ Len(ops) <= 2
                /\ (Len(ops) = 2) <=> fallback
                /\ Len(ops) = 2 => (ops[2].op = "GET" /\ ops[2].url = ops[1].url)
                /\ (Len(ops) = 2 /\ Responded(ops[2].answer)) =>
                       /\ OutcomeOf(r) = Some(OUTCOME_SUCCESS)
                       /\ r.data # None
                       /\ DataField(r, "method") = <<"GET (fallback)">>
                       /\ DataField(r, "status_code") = UpstreamStatus(ops[2].answer)
                       /\ WarnsHeadUnsupported(r)
                /\ (Responded(ops[1].answer) /\ ~fallback) =>
                       /\ r.data # None
                       /\ DataField(r, "method") = <<"HEAD">>

\* C12 witness: HEAD was answered 501, the GET that followed was answered 404, and
\* the result carries the GET's status under the fallback method.
C12_Witness ==
    /\ Len(results) = 1
    /\ results[1].module = HeadersName
    /\ Len(OpsAt(1)) = 2
    /\ OpsAt(1)[1].answer = "status501"
    /\ OpsAt(1)[2].answer = "status404"
    /\ results[1].data # None
    /\ DataField(results[1], "method") = <<"GET (fallback)">>
    /\ DataField(results[1], "status_code") = 404

\* C13: in every headers result that has data, live or of the demo dataset, a
\* warning mentions "HEAD not supported" exactly when the method is "GET (fallback)".
C13_WarningAgreesWithMethod ==
    \A i \in 1..Len(results) :
        (results[i].module = HeadersName /\ results[i].data # None) =>
            (WarnsHeadUnsupported(results[i])
                <=> DataField(results[i], "method") = <<"GET (fallback)">>)

\* the k-th element, in increasing order, of a set of numbers
Nth(S, k) == CHOOSE n \in S : Cardinality({m \in S : m < n}) = k - 1

\* C14: name-record enumeration queries each of its record types, whatever the
\* other lookups did.  A lookup that fails (the transport, the status, the document
\* or the resolver's Status) leaves one warning naming its type; a lookup that
\* succeeds without a non-empty answer leaves nothing; data holds exactly the types
\* that succeeded with a non-empty answer, and is absent when there is none.
C14_DnsTypesIndependent ==
    \A i \in 1..Len(results) :
        (results[i].module = DnsName /\ OpsAt(i) # <<>>) =>
            LET ops == OpsAt(i)
                r == results[i]
                types == 1..Len(DNS_TYPES)
                failed == {k \in types : k <= Len(ops) /\ ops[k].answer \notin {"ok", "empty"}}
                answered == {k \in types : k <= Len(ops) /\ ops[k].answer = "ok"}
            IN  /\ Len(ops) = Len(DNS_TYPES)
                /\ \A k \in types :
                       ops[k].op = "GET" /\ ops[k].url = DnsUrl(context.domain[1], DNS_TYPES[k])
                /\ r.error = None
                /\ Len(r.warnings) = Cardinality(failed)
                /\ \A j \in 1..Len(r.warnings) :
                       j <= Cardinality(failed) => r.warnings[j][1] = DNS_TYPES[Nth(failed, j)]
                /\ IF answered = {} THEN r.data = None
                   ELSE /\ r.data # None
                        /\ DOMAIN r.data[1].v = {DNS_TYPES[k] : k \in answered}

\* C14 witness: of the five lookups two gave answers, one timed out, one gave an
\* empty answer and one a resolver status; data holds the two types and there are
\* two warnings.
C14_Witness ==
    /\ Len(results) = 1
    /\ results[1].module = DnsName
    /\ Len(OpsAt(1)) = 5
    /\ [k \in 1..5 |-> OpsAt(1)[k].answer] = <<"ok", "timeout", "ok", "empty", "nxdomain">>
    /\ results[1].data # None
    /\ DOMAIN results[1].data[1].v = {"A", "MX"}
    /\ Len(results[1].warnings) = 2

\* C14, the case without data: every lookup failed or was empty, and the result has
\* no data, not an empty mapping.
C14_WitnessNoData ==
    /\ Len(results) = 1
    /\ results[1].module = DnsName
    /\ Len(OpsAt(1)) = 5
    /\ \A k \in 1..5 : OpsAt(1)[k].answer \in {"refused", "empty"}
    /\ results[1].data = None

\* C15: the registry is one fixed mapping of exactly the six names whois, dns,
\* certs, headers, ip and social, each in lower case and the name of its class, each
\* class with a non-empty description; the default module list and every module
\* list a run resolves hold keys of the registry only, and every adapter a run
\* instantiates is a class of the registry.
C15_RegistrySixDescribedEntries ==
    LET registry == get_module_registry
        names == { <<"w", "h", "o", "i", "s">>, <<"d", "n", "s">>,
                   <<"c", "e", "r", "t", "s">>, <<"h", "e", "a", "d", "e", "r", "s">>,
                   <<"i", "p">>, <<"s", "o", "c", "i", "a", "l">> }
    IN  /\ DOMAIN registry = names
        /\ Cardinality(DOMAIN registry) = 6
        /\ \A n \in DOMAIN registry :
               /\ registry[n].name = n
               /\ \A k \in 1..Len(n) : n[k] \notin DOMAIN ToLower
               /\ registry[n].description # <<>>
               /\ \A k \in 1..Len(registry[n].description) : registry[n].description[k] # ""
        /\ \A n, m \in DOMAIN registry : n # m => registry[n].cls # registry[m].cls
        /\ \A i \in 1..Len(DEFAULT_MODULES) : DEFAULT_MODULES[i] \in DOMAIN registry
        /\ \A i \in 1..Len(modules) : modules[i] \in DOMAIN registry
        /\ \A i \in 1..Len(instantiated) :
               \E n \in DOMAIN registry : registry[n].cls = instantiated[i]

\* C15 witness: a run of the default module list has looked up and instantiated
\* each of the six classes.
C15_Witness ==
    /\ ~argv.demo
    /\ pc = "done"
    /\ modules = DEFAULT_MODULES
    /\ Len(instantiated) = 6
    /\ \A n \in RegisteredNames :
           \E i \in 1..6 : instantiated[i] = get_module_registry[n].cls

\* the command line passes the validation of main
Validated ==
    \/ argv.demo
    \/ /\ HasTarget(argv)
       /\ LET req == Requested IN \A i \in 1..Len(req) : IsRegistered(req[i])

\* C16: a run that passes validation never ends otherwise than by completing with
\* exit status 0.  When it has completed, the requested reports are written and,
\* unless the append to the log failed, the log holds exactly one record, with the
\* context's domain, both output paths, the module list and one serialized result
\* per module in order; nothing is logged before the modules have finished; a demo
\* run instantiates no adapter and performs no network operation.
C16_ValidatedRunCompletes ==
    Validated =>
        /\ pc \notin {"crashed", "usage_error"}
        /\ exitCode \in {None, Some(0)}
        /\ pc # "done" => (log = <<>> /\ reports = <<>>)
        /\ argv.demo => (net = <<>> /\ instantiated = <<>>)
        /\ pc = "done" =>
               /\ exitCode = Some(0)
               /\ Len(reports) = Cardinality({p \in {argv.output, argv.json_output} : p # None})
               /\ \A p \in {argv.output, argv.json_output} \ {None} :
                      \E k \in 1..Len(reports) : reports[k].path = p[1]
               /\ IF logError # None THEN log = <<>>
                  ELSE /\ Len(log) = 1
                       /\ log[1].domain = context.domain
                       /\ log[1].output = argv.output
                       /\ log[1].json_output = argv.json_output
                       /\ log[1].modules = modules
                       /\ Len(log[1].results) = Len(modules)
                       /\ \A i \in 1..Len(modules) : log[1].results[i].module = modules[i]

\* the upstream answered the call with a status outside 200..299
BadStatus(u) == Responded(u) /\ ~(200 <= UpstreamStatus(u) /\ UpstreamStatus(u) <= 299)

\* C17: no adapter reports success for a call answered with a status outside
\* 200..299.  The result of whois is blocked with an error, those of certs and ip
\* carry an error; name-record enumeration has no data for that type and social
\* search no hit of that source; header inspection whose HEAD is answered with such
\* a status other than 405 and 501 is blocked with an error.
C17_NonSuccessStatusIsFailure ==
    \A i \in 1..Len(results) :
        LET ops == OpsAt(i)
            r == results[i]
            bad(k) == k <= Len(ops) /\ ops[k].op # "getaddrinfo" /\ BadStatus(ops[k].answer)
        IN  /\ (r.module = WhoisName /\ \E k \in 1..Len(ops) : bad(k)) =>
                   (OutcomeOf(r) = Some(OUTCOME_BLOCKED) /\ Truthy(r.error))
            /\ (r.module \in {CertsName, IpName} /\ \E k \in 1..Len(ops) : bad(k)) =>
                   Truthy(r.error)
            /\ r.module = DnsName =>
                   \A k \in 1..Len(ops) :
                       bad(k) => (r.data = None \/ DNS_TYPES[k] \notin DOMAIN r.data[1].v)
            /\ r.module = SocialName =>
                   \A k \in 1..Len(ops) :
                       bad(k) =>
                           \/ r.data = None
                           \/ \A h \in 1..Len(r.data[1].v) :
                                  r.data[1].v[h].source #
                                      (IF k = 1 THEN <<"HackerNews">> ELSE <<"Reddit">>)
            /\ (/\ r.module = HeadersName
                /\ bad(1)
                /\ UpstreamStatus(ops[1].answer) \notin {405, 501}) =>
                   (OutcomeOf(r) = Some(OUTCOME_BLOCKED) /\ Truthy(r.error))

\* C18: in a live run the context keeps the domain, the address, the URL and the
\* timeout main gave it, before and after every module's run.
C18_ContextNotMutated ==
    (~argv.demo /\ pc \in {"exec", "report", "done", "crashed"}) =>
        /\ context.domain = argv.domain
        /\ context.ip_address = argv.ip
        /\ context.base_url = argv.url
        /\ context.timeout = DefaultTimeout

\* C18 witness: a run given a domain only has completed; its ip adapter resolved
\* the domain to an address and its headers adapter derived a URL from the domain.
C18_Witness ==
    /\ ~argv.demo
    /\ pc = "done"
    /\ argv.ip = None
    /\ argv.url = None
    /\ \E k \in 1..Len(net) : net[k].op = "getaddrinfo" /\ net[k].answer = "address"
    /\ \E k \in 1..Len(net) : net[k].op = "HEAD" /\ net[k].url = <<"https://">> \o argv.domain[1]
    /\ context.ip_address = None
    /\ context.base_url = None

\* the hits the two sources' full answers hold that have a title and a link
ExpectedHackerNewsHits ==
    << [source |-> <<"HackerNews">>, title |-> <<"Launch of example.test">>,
        url |-> <<"https://hn.test/1">>],
       [source |-> <<"HackerNews">>, title |-> <<"Ask HN: example.test?">>,
        url |-> <<"https://hn.test/2">>] >>

ExpectedRedditHits ==
    << [source |-> <<"Reddit">>, title |-> <<"Quiet OSINT">>,
        url |-> <<"https://reddit.test/a">>, subreddit |-> Some(<<"r/osint">>)] >>

\* C19: social search queries both sources whatever the first did; a source that
\* fails (transport error, bad status, malformed payload) gives no hit and the
\* module still returns a result without error, whose data is the first source's
\* hits followed by the second's, or absent with exactly one warning when there
\* is no hit at all.
C19_SocialSourcesIndependent ==
    \A i \in 1..Len(modules) :
        (modules[i] = SocialName /\ OpsAt(i) # <<>>) =>
            LET ops == OpsAt(i)
                hits == (IF ops[1].answer = "ok" THEN ExpectedHackerNewsHits ELSE <<>>)
                            \o (IF Len(ops) >= 2 /\ ops[2].answer = "ok"
                                THEN ExpectedRedditHits ELSE <<>>)
            IN  /\ Len(ops) = 2
                /\ Len(results) >= i
                /\ results[i].module = SocialName
                /\ results[i].error = None
                /\ IF hits = <<>>
                   THEN results[i].data = None /\ Len(results[i].warnings) = 1
                   ELSE results[i].data = Some(List(hits)) /\ results[i].warnings = <<>>

\* the deduplication key of an entry: its fingerprint, or its common name and
\* name value when it has none
EntryKey(entry) ==
    LET has(f) == f \in DOMAIN entry /\ entry[f] # <<>>
        text(f) == IF f \in DOMAIN entry THEN entry[f] ELSE <<"None">>
    IN  IF has("sha256") THEN entry.sha256
        ELSE IF has("sha1") THEN entry.sha1
        ELSE text("common_name") \o <<":">> \o text("name_value")

\* the positions of the upstream list that hold the first entry of their key
FirstOccurrences(payload) ==
    {k \in 1..Len(payload) :
        \A j \in 1..(k - 1) : EntryKey(payload[j]) # EntryKey(payload[k])}

\* C20: the records of a certificate search the adapter ran are those of the first entries of each
\* deduplication key, in upstream order, cut after the 25th: no key gives two
\* records, there are at most 25 records, and every key of a list of at most 25
\* keys gives exactly one.
C20_CertsDeduplicatedAndBounded ==
    \A i \in 1..Len(results) :
        (results[i].module = CertsName /\ results[i].data # None /\ OpsAt(i) # <<>>) =>
            LET payload == CrtPayload(UpstreamBody(OpsAt(i)[1].answer))
                firsts == FirstOccurrences(payload)
                records == results[i].data[1].v
            IN  /\ Len(records) <= 25
                /\ Len(records) = IF Cardinality(firsts) <= 25 THEN Cardinality(firsts) ELSE 25
                /\ \A j \in 1..Len(records) :
                       LET entry == payload[Nth(firsts, j)]
                       IN  /\ records[j].common_name = DictGetOpt(entry, "common_name")
                           /\ records[j].name_value = DictGetOpt(entry, "name_value")
                           /\ records[j].issuer_name = DictGetOpt(entry, "issuer_name")
                           /\ records[j].not_before = DictGetOpt(entry, "not_before")

\* C20 witness: a list of 34 entries of 28 keys gave 25 records, the fifth entry (a
\* repeat of the first) left out and the last record that of the 31st entry.
C20_Witness ==
    \E i \in 1..Len(results) :
        /\ results[i].module = CertsName
        /\ results[i].data # None
        /\ OpsAt(i) # <<>>
        /\ OpsAt(i)[1].answer = "big"
        /\ Len(results[i].data[1].v) = 25
        /\ results[i].data[1].v[5].common_name = Some(<<"host", "0", "6", ".example.test">>)
        /\ results[i].data[1].v[25].common_name = Some(<<"host", "3", "1", ".example.test">>)

\* C20, a short list: five entries of three keys gave three records.
C20_WitnessShortList ==
    \E i \in 1..Len(results) :
        /\ results[i].module = CertsName
        /\ results[i].data # None
        /\ OpsAt(i) # <<>>
        /\ OpsAt(i)[1].answer = "ok"
        /\ Len(results[i].data[1].v) = 3

\* the header adapter's run that produced r passed its precondition
PassedHeadersPrecondition(r) ==
    r.error # Some(<<"A domain or URL is required for header sniffing.">>)

\* how many of the first i calls of the header adapter passed their precondition
PassedUpTo(i) == Cardinality({j \in 1..i : PassedHeadersPrecondition(results[j])})

\* the pool entry of the k-th call that passes its precondition
PoolEntry(k) == USER_AGENTS[((k - 1) % Len(USER_AGENTS)) + 1]

====
